---------------------------- MODULE Spec2Model ----------------------------
(***************************************************************************)
(* Model of the STR data loader (data_processing/folder_data_loader.py):   *)
(* the per-city source registry, link resolution, the dataset fetcher with *)
(* its confirm retry, the dataset store, the category regrouping and the   *)
(* synthetic fallback; and of the nuisance predictor                       *)
(* (modeling/predictor.py): feature preparation, training, prediction,     *)
(* risk bucketing, and saving and loading of the model artifact.           *)
(*                                                                         *)
(* Python strings the code inspects (URLs, file ids) are sequences of      *)
(* one-character strings, so that the regular expressions and strip() are  *)
(* computed, not assumed.                                                  *)
(***************************************************************************)
EXTENDS Integers, Sequences, FiniteSets, TLC

VARIABLES
    city_name,      \* self.city_name
    folder_id,      \* self.folder_id
    city_configs,   \* self.city_configs: city -> file_mappings
    file_configs,   \* self.file_configs: dataset key -> descriptor
    shared,         \* the city whose file_mappings IS the file_configs object
    datasets,       \* self.datasets: dataset key -> table | None
    op,             \* the last operation called, with its arguments
    ret,            \* what the last operation returned
    raised,         \* whether the last operation raised
    reqLog,         \* the HTTP requests the last operation issued, in order
    net,            \* what the network answered during the last operation
    url,            \* extract_file_id: the input string
    extracted,      \* extract_file_id: the returned string
    predictors,     \* the NuisancePredictor objects: instance -> its fields
    files,          \* the file system: path -> what joblib.load finds there
    call            \* the last predictor call: arguments, outcome, sklearn calls

vars == <<city_name, folder_id, city_configs, file_configs, shared, datasets,
          op, ret, raised, reqLog, net, url, extracted,
          predictors, files, call>>

predictorVars == <<predictors, files, call>>

loaderVars == <<city_name, folder_id, city_configs, file_configs, shared,
                datasets, op, ret, raised, reqLog, net>>

-----------------------------------------------------------------------------
(* Python values *)

\* None
None == [py |-> "None"]

\* str.strip() removes these from both ends
Whitespace == {" ", "\t", "\n", "\r"}

\* the character class [a-zA-Z0-9-_] of both patterns
IdChars ==
    {"a","b","c","d","e","f","g","h","i","j","k","l","m",
     "n","o","p","q","r","s","t","u","v","w","x","y","z",
     "A","B","C","D","E","F","G","H","I","J","K","L","M",
     "N","O","P","Q","R","S","T","U","V","W","X","Y","Z",
     "0","1","2","3","4","5","6","7","8","9","-","_"}

\* the literal prefix of the first pattern, r'/file/d/'
PathPrefix == <<"/","f","i","l","e","/","d","/">>

\* the literal prefix of the second pattern, r'id='
QueryPrefix == <<"i","d","=">>

\* s[i..] starts with the literal p
StartsAt(s, i, p) ==
    /\ i + Len(p) - 1 <= Len(s)
    /\ SubSeq(s, i, i + Len(p) - 1) = p

\* length of the longest run of class characters of s starting at position i:
\* what the greedy ([a-zA-Z0-9-_]+) consumes
RECURSIVE IdRun(_, _)
IdRun(s, i) ==
    IF i <= Len(s) /\ s[i] \in IdChars THEN 1 + IdRun(s, i + 1) ELSE 0

\* r'/file/d/([a-zA-Z0-9-_]+)/' matches at position i.  The class does not
\* hold "/", so backtracking the greedy run cannot produce another match.
PathMatchAt(s, i) ==
    /\ StartsAt(s, i, PathPrefix)
    /\ IdRun(s, i + Len(PathPrefix)) >= 1
    /\ i + Len(PathPrefix) + IdRun(s, i + Len(PathPrefix)) <= Len(s)
    /\ s[i + Len(PathPrefix) + IdRun(s, i + Len(PathPrefix))] = "/"

\* r'id=([a-zA-Z0-9-_]+)' matches at position i
QueryMatchAt(s, i) ==
    /\ StartsAt(s, i, QueryPrefix)
    /\ IdRun(s, i + Len(QueryPrefix)) >= 1

\* group(1) of a match of a pattern with literal prefix p at position i
Group1(s, i, p) ==
    SubSeq(s, i + Len(p), i + Len(p) + IdRun(s, i + Len(p)) - 1)

\* re.search: the leftmost position from i on at which the pattern matches,
\* 0 when there is none
RECURSIVE SearchPath(_, _)
SearchPath(s, i) ==
    IF i > Len(s) THEN 0
    ELSE IF PathMatchAt(s, i) THEN i
    ELSE SearchPath(s, i + 1)

RECURSIVE SearchQuery(_, _)
SearchQuery(s, i) ==
    IF i > Len(s) THEN 0
    ELSE IF QueryMatchAt(s, i) THEN i
    ELSE SearchQuery(s, i + 1)

\* str.strip()
RECURSIVE LStrip(_)
LStrip(s) ==
    IF s # <<>> /\ Head(s) \in Whitespace THEN LStrip(Tail(s)) ELSE s

RECURSIVE RStrip(_)
RStrip(s) ==
    IF s # <<>> /\ s[Len(s)] \in Whitespace
    THEN RStrip(SubSeq(s, 1, Len(s) - 1))
    ELSE s

Strip(s) == RStrip(LStrip(s))

\* extract_file_id with the two patterns tried in the other order
extract_file_id_query_first(u) ==
    IF SearchQuery(u, 1) # 0 THEN Group1(u, SearchQuery(u, 1), QueryPrefix)
    ELSE IF SearchPath(u, 1) # 0 THEN Group1(u, SearchPath(u, 1), PathPrefix)
    ELSE Strip(u)

\* STRDataLoader.extract_file_id
extract_file_id(u) ==
    IF SearchPath(u, 1) # 0 THEN Group1(u, SearchPath(u, 1), PathPrefix)
    ELSE IF SearchQuery(u, 1) # 0 THEN Group1(u, SearchQuery(u, 1), QueryPrefix)
    ELSE Strip(u)

-----------------------------------------------------------------------------
(* Source registry *)

\* config.get('file_id') of a descriptor whose remote id is not configured
NoId == <<"None">>

\* Python truthiness of a remote id: `if not file_id` rejects None and ''
Truthy(id) == id # NoId /\ id # <<>>

\* folder_id=None
NoFolder == "<None>"

\* the default of __init__: folder_id or "1FEIn..."
DefaultFolder == "1FEInC_DsWaQo8XIvydEGL1e0si7wqvFg"

\* one entry of a file_mappings dict
Descriptor(fn, id, desc, cat) ==
    [filename |-> fn, file_id |-> id, description |-> desc, category |-> cat]

\* an empty dict
EmptyDict == <<>>

\* The order in which a dict over these keys is iterated (insertion order of
\* the literal in __init__, then the keys a caller adds).
KeyOrder == <<"licensed_strs", "unlicensed_strs", "ez_complaints", "str_list">>

\* dict.keys() of m, in iteration order
KeysOf(m) == SelectSeq(KeyOrder, LAMBDA k : k \in DOMAIN m)

\* city_configs["Scottsdale"]["file_mappings"] of __init__, restricted to two
\* property datasets and one complaint dataset
ScottsdaleMappings ==
    ("licensed_strs" :>
        Descriptor("Licensed_Short-term_Rental_Public.csv",
            <<"1","6","-","l","g","-","5","f","j","-","d","t","t","K","U","g","w",
              "W","T","b","z","o","0","w","D","H","4","l","C","v","V","-","t">>,
            "Licensed STR properties", "properties"))
    @@ ("unlicensed_strs" :>
        Descriptor("Unlicensed_Short-term_Rentals_Public.csv",
            <<"1","2","m","l","o","9","J","t","f","I","U","f","O","z","3","C","x",
              "J","V","C","E","I","g","V","I","E","Z","K","G","y","Q","6","X">>,
            "Unlicensed STR properties", "properties"))
    @@ ("ez_complaints" :>
        Descriptor("ScottsdaleEZ_Complaints_Public.csv",
            <<"1","U","D","b","X","L","l","V","d","i","k","J","G","F","y","V","g",
              "O","x","L","E","x","Y","W","F","q","e","3","A","D","c","S","j">>,
            "Main complaints system", "complaints"))

\* STRDataLoader.__init__(city_name=c, folder_id=f): the fields of the new object
NewLoader(c, f) ==
    LET configs == ("Scottsdale" :> ScottsdaleMappings) IN
    [city_name    |-> c,
     folder_id    |-> IF f = NoFolder \/ f = "" THEN DefaultFolder ELSE f,
     city_configs |-> configs,
     file_configs |-> IF c \in DOMAIN configs THEN configs[c] ELSE EmptyDict,
     shared       |-> IF c \in DOMAIN configs THEN c ELSE "none",
     datasets     |-> EmptyDict]

\* STRDataLoader.add_city_config on the loader L: city_configs[c] is replaced by
\* a new object; file_configs keeps pointing at the object it pointed at.
add_city_config(L, c, m, f) ==
    [L EXCEPT !.city_configs = (c :> m) @@ L.city_configs,
              !.folder_id = IF f = NoFolder \/ f = "" THEN L.folder_id ELSE f,
              !.shared = IF L.shared = c THEN "none" ELSE L.shared]

\* key.replace('_', ' ').title() for the keys of KeyOrder
TitleOf(k) ==
    CASE k = "licensed_strs"   -> "Licensed Strs"
      [] k = "unlicensed_strs" -> "Unlicensed Strs"
      [] k = "ez_complaints"   -> "Ez Complaints"
      [] k = "str_list"        -> "Str List"

\* A file_links dict is the sequence of its <<key, url>> pairs in insertion
\* order (keys distinct).  LinkKeys: its keys; LinkUrl: links[k].
LinkKeys(links) == {links[i][1] : i \in 1..Len(links)}

LinkUrl(links, k) == links[CHOOSE i \in 1..Len(links) : links[i][1] = k][2]

\* the file_mappings add_new_city builds from file_links
MappingsOfLinks(links) ==
    [k \in LinkKeys(links) |->
        Descriptor(k \o ".csv", extract_file_id(LinkUrl(links, k)), TitleOf(k), "general")]

\* setup_file_links that gives up at the first unknown key
RECURSIVE setup_file_links_break(_, _)
setup_file_links_break(cfg, links) ==
    IF links = <<>> THEN cfg
    ELSE IF Head(links)[1] \notin DOMAIN cfg THEN cfg
    ELSE setup_file_links_break(
            [cfg EXCEPT ![Head(links)[1]].file_id = extract_file_id(Head(links)[2])],
            Tail(links))

\* STRDataLoader.setup_file_links on the mappings cfg: for each pair in order,
\* an unknown key is skipped and a known key's file_id is overwritten with the
\* extracted id.  The value is the mappings after the call.
RECURSIVE setup_file_links(_, _)
setup_file_links(cfg, links) ==
    IF links = <<>> THEN cfg
    ELSE IF Head(links)[1] \notin DOMAIN cfg THEN setup_file_links(cfg, Tail(links))
    ELSE setup_file_links(
            [cfg EXCEPT ![Head(links)[1]].file_id = extract_file_id(Head(links)[2])],
            Tail(links))

-----------------------------------------------------------------------------
(* Dataset fetcher *)

\* len(response.text) < 1000 is the "implausibly small" test of load_dataset
SmallBody == 1000

\* Body lengths the network may answer with: empty, just under and at SmallBody
BodyLens == {0, SmallBody - 1, SmallBody}

\* What one requests.get can produce.  exc: the call itself raised (timeout,
\* connection error).  status_ok: raise_for_status() would pass.  The body is
\* known by what the code reads of it: its length, whether its lower-cased
\* text holds 'virus scan', whether it is well-formed delimited text and how
\* many data rows follow its header.
Responses ==
    {r \in [exc : BOOLEAN, status_ok : BOOLEAN, len : BodyLens,
            has_marker : BOOLEAN, well_formed : BOOLEAN, data_rows : {0, 2}] :
        /\ r.exc => (~r.status_ok /\ r.len = 0)
        /\ (~r.exc /\ ~r.status_ok) =>
              (r.len = SmallBody - 1 /\ ~r.has_marker /\ r.data_rows = 2)
        /\ r.len = 0 => (~r.has_marker /\ ~r.well_formed)
        /\ ~r.well_formed => r.data_rows = 0}

\* get_direct_download_url(file_id), and the same with &confirm=t appended
get_direct_download_url(id) == [id |-> id, export |-> "download", confirm |-> FALSE]

ConfirmUrl(id) == [id |-> id, export |-> "download", confirm |-> TRUE]

\* the test of line 199 with <= for <
NeedsConfirmInclusive(r) == r.len <= SmallBody /\ r.has_marker

\* line 199: len(response.text) < 1000 and 'virus scan' in response.text.lower()
NeedsConfirm(r) == r.len < SmallBody /\ r.has_marker

\* pd.read_csv(StringIO(response.text)): raises on an empty or malformed body
\* (EmptyDataError, ParserError); a header with no data rows gives a table of
\* zero rows.
read_csv(r) ==
    IF r.len = 0 \/ ~r.well_formed
    THEN [exc |-> TRUE, value |-> None]
    ELSE [exc |-> FALSE, value |-> [py |-> "DataFrame", nrows |-> r.data_rows]]

\* The try block of load_dataset (lines 190-208) for a registered key with a
\* truthy file id; r1 answers the first request and r2 the confirm request.
\* exc: an exception left the block; reqs/answers: the requests issued and what
\* answered each.
try_block(key, id, r1, r2) ==
    LET q1 == [key |-> key, url |-> get_direct_download_url(id)]
        q2 == [key |-> key, url |-> ConfirmUrl(id)]
    IN  IF r1.exc \/ ~r1.status_ok
        THEN [exc |-> TRUE, value |-> None, reqs |-> <<q1>>, answers |-> <<r1>>]
        ELSE IF NeedsConfirm(r1)
        THEN IF r2.exc
             THEN [exc |-> TRUE, value |-> None,
                   reqs |-> <<q1, q2>>, answers |-> <<r1, r2>>]
             ELSE [exc |-> read_csv(r2).exc, value |-> read_csv(r2).value,
                   reqs |-> <<q1, q2>>, answers |-> <<r1, r2>>]
        ELSE [exc |-> read_csv(r1).exc, value |-> read_csv(r1).value,
              reqs |-> <<q1>>, answers |-> <<r1>>]

\* load_dataset without its except clause
load_dataset_uncaught(cfg, key, r1, r2) ==
    IF key \notin DOMAIN cfg \/ ~Truthy(cfg[key].file_id)
    THEN [ret |-> None, raised |-> FALSE, reqs |-> <<>>, answers |-> <<>>]
    ELSE LET b == try_block(key, cfg[key].file_id, r1, r2) IN
         [ret |-> b.value, raised |-> b.exc, reqs |-> b.reqs, answers |-> b.answers]

\* STRDataLoader.load_dataset(key) on the mappings cfg: what it returns,
\* whether it raises, and the requests it issued.  The handler of line 210
\* catches every Exception of the block.
load_dataset(cfg, key, r1, r2) ==
    IF key \notin DOMAIN cfg
    THEN [ret |-> None, raised |-> FALSE, reqs |-> <<>>, answers |-> <<>>]
    ELSE IF ~Truthy(cfg[key].file_id)
    THEN [ret |-> None, raised |-> FALSE, reqs |-> <<>>, answers |-> <<>>]
    ELSE LET b == try_block(key, cfg[key].file_id, r1, r2) IN
         [ret |-> IF b.exc THEN None ELSE b.value, raised |-> FALSE,
          reqs |-> b.reqs, answers |-> b.answers]

-----------------------------------------------------------------------------
(* Dataset store *)

\* The loop of load_all_datasets (lines 227-229) over the keys ks of
\* file_configs: each key is fetched and its result, None included, stored
\* under the key.  answer[k] is what the network answers for k.
RECURSIVE load_all_loop(_, _, _, _)
load_all_loop(cfg, answer, ks, acc) ==
    IF ks = <<>> THEN acc
    ELSE LET k == Head(ks)
             o == load_dataset(cfg, k, answer[k][1], answer[k][2])
         IN  load_all_loop(cfg, answer, Tail(ks),
                [datasets |-> (k :> o.ret) @@ acc.datasets,
                 raised   |-> acc.raised \/ o.raised,
                 reqs     |-> acc.reqs \o o.reqs,
                 answers  |-> acc.answers \o o.answers])

\* _print_loading_summary: "Successfully loaded: loaded_count/total_count"
loading_summary(ds, cfg) ==
    [loaded_count |-> Cardinality({k \in DOMAIN ds : ds[k] # None}),
     total_count  |-> Cardinality(DOMAIN cfg)]

\* load_all_datasets without the reset of self.datasets
load_all_datasets_merging(ds, cfg, answer) ==
    load_all_loop(cfg, answer, KeysOf(cfg),
        [datasets |-> ds, raised |-> FALSE, reqs |-> <<>>, answers |-> <<>>])

\* STRDataLoader.load_all_datasets on a loader whose store is ds: the store is
\* reset (self.datasets = {}), then the loop runs over file_configs
load_all_datasets(ds, cfg, answer) ==
    load_all_loop(cfg, answer, KeysOf(cfg),
        [datasets |-> EmptyDict, raised |-> FALSE, reqs |-> <<>>, answers |-> <<>>])

\* STRDataLoader.get_dataset_by_category: every stored entry whose key has a
\* descriptor is put under its descriptor's category, its value as stored
get_dataset_by_category(ds, cfg) ==
    LET known == DOMAIN ds \cap DOMAIN cfg
        cats  == {cfg[k].category : k \in known}
    IN  [c \in cats |-> [k \in {x \in known : cfg[x].category = c} |-> ds[k]]]

\* Stand-ins for n_properties = 1000 and n_complaints = 3000
NProperties == 2
NComplaints == 2

\* what np.random.randint(1000, 9999) and the choice of a street may draw:
\* the ends of the number range, two of the three streets
HouseNumbers == {1000, 9998}
Streets == {"Main St", "Elm Dr"}

\* The random draws of one create_sample_data_for_testing call: the number and
\* street of each property, and the property each complaint picks.  The seed
\* is fixed but what it yields is not computed here: every draw is allowed.
SampleDraws ==
    [number : [1..NProperties -> HouseNumbers],
     street : [1..NProperties -> Streets],
     pick   : [1..NComplaints -> 1..NProperties]]

\* self.datasets['licensed_strs'] of create_sample_data_for_testing
sample_properties(d) ==
    [py |-> "DataFrame", nrows |-> NProperties,
     address |-> [i \in 1..NProperties |-> <<d.number[i], d.street[i], i>>]]

\* self.datasets['ez_complaints']: each address chosen from the property list
sample_complaints(d) ==
    [py |-> "DataFrame", nrows |-> NComplaints,
     address |-> [j \in 1..NComplaints |-> sample_properties(d).address[d.pick[j]]]]

\* STRDataLoader.create_sample_data_for_testing: the store after the call
create_sample_data_for_testing(ds, d) ==
    ("licensed_strs" :> sample_properties(d))
        @@ ("ez_complaints" :> sample_complaints(d)) @@ ds

\* load_city_str_data(city_name=c, folder_id=f): a new loader, a full load and
\* the sample data when `not any(df is not None ...)`.  load_all_datasets
\* raises nothing, so the except branch (the same fallback) is not entered.
load_city_str_data(c, f, answer, d) ==
    LET L == NewLoader(c, f)
        a == load_all_datasets(L.datasets, L.file_configs, answer)
        fallback == ~(\E k \in DOMAIN a.datasets : a.datasets[k] # None)
    IN  [loader   |-> [L EXCEPT !.datasets =
                          IF fallback
                          THEN create_sample_data_for_testing(a.datasets, d)
                          ELSE a.datasets],
         fallback |-> fallback, raised |-> FALSE,
         reqs |-> a.reqs, answers |-> a.answers]

-----------------------------------------------------------------------------
(* Inputs *)

Cities == {"Scottsdale", "Phoenix"}

FolderArgs == {NoFolder, "folder-2"}

AllKeys == {KeyOrder[i] : i \in 1..Len(KeyOrder)}

\* Keys of single fetches and of links in the fetcher's specification: one the
\* default city registers, one it does not
FetchKeys == {"licensed_strs", "str_list"}

\* Strings handed to setup_file_links: blank, a sharing link, a bare id
BlankUrl == <<" ">>
ShareUrl == <<"x">> \o PathPrefix \o <<"A","B","/","v">>
BareUrl  == <<"Q","1">>

\* file_links dicts of at most MaxLinks pairs, over the keys ks and urls us
MaxLinks == 2

LinkDicts(ks, us) ==
    {l \in UNION {[1..n -> ks \X us] : n \in 1..MaxLinks} :
        \A i, j \in 1..Len(l) : l[i][1] = l[j][1] => i = j}

\* file_mappings handed to add_city_config: with and without a remote id
RegMappings ==
    {("str_list" :> Descriptor("str_list.csv", NoId, "Str List", "general")),
     ("licensed_strs" :> Descriptor("licensed.csv", <<"Z","9">>, "Licensed", "properties"))
        @@ ("str_list" :> Descriptor("str_list.csv", <<"Y","8">>, "Str List", "general"))}

\* Named answers of the network
Timeout   == [exc |-> TRUE, status_ok |-> FALSE, len |-> 0, has_marker |-> FALSE,
              well_formed |-> FALSE, data_rows |-> 0]
OkRows    == [exc |-> FALSE, status_ok |-> TRUE, len |-> SmallBody, has_marker |-> FALSE,
              well_formed |-> TRUE, data_rows |-> 2]
OkHeader  == [exc |-> FALSE, status_ok |-> TRUE, len |-> SmallBody - 1, has_marker |-> FALSE,
              well_formed |-> TRUE, data_rows |-> 0]
OkGarbled == [exc |-> FALSE, status_ok |-> TRUE, len |-> SmallBody, has_marker |-> FALSE,
              well_formed |-> FALSE, data_rows |-> 0]
VirusPage == [exc |-> FALSE, status_ok |-> TRUE, len |-> SmallBody - 1, has_marker |-> TRUE,
              well_formed |-> TRUE, data_rows |-> 2]
ErrorPage == [exc |-> FALSE, status_ok |-> FALSE, len |-> SmallBody - 1, has_marker |-> FALSE,
              well_formed |-> TRUE, data_rows |-> 2]

\* what may answer a confirm request
RetryResponses == {Timeout, ErrorPage, OkRows, OkGarbled}

\* Answers a full load may get for one key: <<first answer, confirm answer>>
BatchAnswers ==
    {<<Timeout, Timeout>>, <<OkRows, Timeout>>, <<OkHeader, Timeout>>,
     <<VirusPage, OkRows>>, <<VirusPage, ErrorPage>>}

\* one draw of the sample generator, for the specifications that are not
\* about the sample data
OneDraw ==
    [number |-> [i \in 1..NProperties |-> 1000],
     street |-> [i \in 1..NProperties |-> "Main St"],
     pick   |-> [j \in 1..NComplaints |-> 1]]

\* Inputs of the registry's specification: keys of links, urls, the links
\* add_new_city is given, and the one answer of the network
RegKeys == {"licensed_strs", "str_list"}

LinkUrls == {BlankUrl, ShareUrl, BareUrl}

NewCityLinks == LinkDicts({"str_list"}, {BlankUrl, ShareUrl})

FewAnswers == {<<OkRows, Timeout>>}

\* Pieces of the strings handed to extract_file_id, and the strings made of at
\* most MaxFrags of them
MaxFrags == 4

Fragments ==
    {PathPrefix, QueryPrefix, <<"?">>, <<"/">>, <<" ">>, <<".">>,
     <<"u">>, <<"A","1">>, <<"/","?","i","d","=","7">>}

RECURSIVE Urls(_)
Urls(n) ==
    IF n = 0 THEN {<<>>}
    ELSE Urls(n - 1) \cup {u \o f : u \in Urls(n - 1), f \in Fragments}

-----------------------------------------------------------------------------
(* State machine *)

\* the loader object as a record of its fields
CurLoader ==
    [city_name |-> city_name, folder_id |-> folder_id, city_configs |-> city_configs,
     file_configs |-> file_configs, shared |-> shared, datasets |-> datasets]

SetLoader(L) ==
    /\ city_name' = L.city_name
    /\ folder_id' = L.folder_id
    /\ city_configs' = L.city_configs
    /\ file_configs' = L.file_configs
    /\ shared' = L.shared
    /\ datasets' = L.datasets

\* loader = STRDataLoader(city_name=c, folder_id=f)
Init ==
    \E c \in Cities :
        /\ city_name = c
        /\ folder_id = NewLoader(c, NoFolder).folder_id
        /\ city_configs = NewLoader(c, NoFolder).city_configs
        /\ file_configs = NewLoader(c, NoFolder).file_configs
        /\ shared = NewLoader(c, NoFolder).shared
        /\ datasets = NewLoader(c, NoFolder).datasets
        /\ op = [name |-> "__init__"]
        /\ ret = None
        /\ raised = FALSE
        /\ reqLog = <<>>
        /\ net = <<>>
        /\ url = <<>>
        /\ extracted = NoId
        /\ predictors = <<>>
        /\ files = <<>>
        /\ call = <<>>

\* loader.add_city_config(c, m, f)
AddCityConfig(c, m, f) ==
    /\ SetLoader(add_city_config(CurLoader, c, m, f))
    /\ op' = [name |-> "add_city_config", city |-> c, mappings |-> m]
    /\ ret' = None
    /\ raised' = FALSE
    /\ reqLog' = <<>>
    /\ net' = <<>>
    /\ UNCHANGED predictorVars
    /\ UNCHANGED <<url, extracted>>

\* loader = add_new_city(c, links, f): a default loader with the city added
AddNewCity(c, links, f) ==
    /\ SetLoader(add_city_config(NewLoader("Scottsdale", NoFolder),
                                 c, MappingsOfLinks(links), f))
    /\ op' = [name |-> "add_new_city", city |-> c, mappings |-> MappingsOfLinks(links)]
    /\ ret' = None
    /\ raised' = FALSE
    /\ reqLog' = <<>>
    /\ net' = <<>>
    /\ UNCHANGED predictorVars
    /\ UNCHANGED <<url, extracted>>

\* loader.setup_file_links(links).  The descriptors are changed in place, so
\* the city whose file_mappings object is file_configs sees the change too.
SetupFileLinks(links) ==
    /\ file_configs' = setup_file_links(file_configs, links)
    /\ city_configs' = IF shared \in DOMAIN city_configs
                       THEN [city_configs EXCEPT ![shared] = file_configs']
                       ELSE city_configs
    /\ op' = [name |-> "setup_file_links", links |-> links]
    /\ ret' = None
    /\ raised' = FALSE
    /\ reqLog' = <<>>
    /\ net' = <<>>
    /\ UNCHANGED predictorVars
    /\ UNCHANGED <<city_name, folder_id, shared, datasets, url, extracted>>

\* loader.load_dataset(k), the network answering r1 and, if asked, r2
LoadDataset(k, r1, r2) ==
    LET o == load_dataset(file_configs, k, r1, r2) IN
    /\ op' = [name |-> "load_dataset", key |-> k]
    /\ ret' = o.ret
    /\ raised' = o.raised
    /\ reqLog' = o.reqs
    /\ net' = o.answers
    /\ UNCHANGED predictorVars
    /\ UNCHANGED <<city_name, folder_id, city_configs, file_configs, shared,
                   datasets, url, extracted>>

\* loader.load_all_datasets(), the network answering answer[k] for key k
LoadAllDatasets(answer) ==
    LET a == load_all_datasets(datasets, file_configs, answer) IN
    /\ datasets' = a.datasets
    /\ op' = [name |-> "load_all_datasets",
              summary |-> loading_summary(a.datasets, file_configs)]
    /\ ret' = a.datasets
    /\ raised' = a.raised
    /\ reqLog' = a.reqs
    /\ net' = a.answers
    /\ UNCHANGED predictorVars
    /\ UNCHANGED <<city_name, folder_id, city_configs, file_configs, shared,
                   url, extracted>>

\* loader.get_dataset_by_category()
GetDatasetByCategory ==
    /\ op' = [name |-> "get_dataset_by_category"]
    /\ ret' = get_dataset_by_category(datasets, file_configs)
    /\ raised' = FALSE
    /\ reqLog' = <<>>
    /\ net' = <<>>
    /\ UNCHANGED predictorVars
    /\ UNCHANGED <<city_name, folder_id, city_configs, file_configs, shared,
                   datasets, url, extracted>>

\* loader.create_sample_data_for_testing(), the generator drawing d
CreateSampleData(d) ==
    /\ datasets' = create_sample_data_for_testing(datasets, d)
    /\ op' = [name |-> "create_sample_data_for_testing"]
    /\ ret' = None
    /\ raised' = FALSE
    /\ reqLog' = <<>>
    /\ net' = <<>>
    /\ UNCHANGED predictorVars
    /\ UNCHANGED <<city_name, folder_id, city_configs, file_configs, shared,
                   url, extracted>>

\* loader, datasets = load_city_str_data(c, f).  The generator draws only
\* when the sample data is created.  The function builds its own loader and
\* reads nothing of an existing one, so it is taken as a program's first call.
LoadCityStrData(c, f, answer) ==
    \E d \in IF load_city_str_data(c, f, answer, OneDraw).fallback
             THEN SampleDraws ELSE {OneDraw} :
        LET o == load_city_str_data(c, f, answer, d) IN
        /\ op.name = "__init__"
        /\ SetLoader(o.loader)
        /\ op' = [name |-> "load_city_str_data", fallback |-> o.fallback]
        /\ ret' = o.loader.datasets
        /\ raised' = o.raised
        /\ reqLog' = o.reqs
        /\ net' = o.answers
        /\ UNCHANGED predictorVars
        /\ UNCHANGED <<url, extracted>>

\* url = a string; extracted = loader.extract_file_id(url)
ExtractFileId ==
    /\ extracted = NoId
    /\ extracted' = extract_file_id(url)
    /\ UNCHANGED predictorVars
    /\ UNCHANGED <<loaderVars, url>>

\* Fetcher and store: links that blank a remote id, single fetches, full loads
Next ==
    \/ \E links \in LinkDicts(FetchKeys, {BlankUrl}) : SetupFileLinks(links)
    \/ \E k \in FetchKeys, r1 \in Responses :
          \E r2 \in IF r1.has_marker THEN RetryResponses ELSE {Timeout} :
              LoadDataset(k, r1, r2)
    \/ \E answer \in [DOMAIN file_configs -> BatchAnswers] : LoadAllDatasets(answer)
    \/ GetDatasetByCategory
    \/ CreateSampleData(OneDraw)

Spec == Init /\ [][Next]_vars

\* The quick-start function: a new loader, a full load, the fallback
NextCity ==
    \/ \E c \in Cities, f \in FolderArgs :
          \E answer \in [DOMAIN NewLoader(c, f).file_configs -> BatchAnswers] :
              LoadCityStrData(c, f, answer)
    \/ GetDatasetByCategory

SpecCity == Init /\ [][NextCity]_vars

\* The registry: links, registrations, and loads on what they leave
NextRegistry ==
    \/ \E links \in LinkDicts(RegKeys, LinkUrls) : SetupFileLinks(links)
    \/ \E c \in Cities, m \in RegMappings, f \in FolderArgs : AddCityConfig(c, m, f)
    \/ \E c \in Cities, links \in NewCityLinks : AddNewCity(c, links, NoFolder)
    \/ \E k \in RegKeys : LoadDataset(k, OkRows, Timeout)
    \/ \E answer \in [DOMAIN file_configs -> FewAnswers] : LoadAllDatasets(answer)

SpecRegistry == Init /\ [][NextRegistry]_vars

\* Identifier extraction on its own: a default loader and a string
InitExtract ==
    /\ city_name = "Scottsdale"
    /\ folder_id = NewLoader("Scottsdale", NoFolder).folder_id
    /\ city_configs = NewLoader("Scottsdale", NoFolder).city_configs
    /\ file_configs = NewLoader("Scottsdale", NoFolder).file_configs
    /\ shared = NewLoader("Scottsdale", NoFolder).shared
    /\ datasets = NewLoader("Scottsdale", NoFolder).datasets
    /\ op = [name |-> "__init__"]
    /\ ret = None
    /\ raised = FALSE
    /\ reqLog = <<>>
    /\ net = <<>>
    /\ url \in Urls(MaxFrags)
    /\ extracted = NoId
    /\ predictors = <<>>
    /\ files = <<>>
    /\ call = <<>>

NextExtract == ExtractFileId

SpecExtract == InitExtract /\ [][NextExtract]_vars

-----------------------------------------------------------------------------
(* What the claims speak of *)

\* a request was answered and the answer's status is a success
TransportSucceeded(r) == ~r.exc /\ r.status_ok

\* a body is delimited tabular text with a header
ParseSucceeded(r) == r.len > 0 /\ r.well_formed

\* a value is a table / a table with at least one row
IsTable(v) == v.py = "DataFrame"

IsNonEmptyTable(v) == v.py = "DataFrame" /\ v.nrows > 0

\* the last operation was a single fetch of a registered key with a remote id
FetchedConfigured ==
    /\ op.name = "load_dataset"
    /\ op.key \in DOMAIN file_configs
    /\ Truthy(file_configs[op.key].file_id)

\* the positions of reqLog that are requests for key k
RequestsFor(k) == {i \in 1..Len(reqLog) : reqLog[i].key = k}

\* the last operation fetched: a single fetch or a full load
Fetching == op.name \in {"load_dataset", "load_all_datasets", "load_city_str_data"}

-----------------------------------------------------------------------------
(* C1 *)

\* C1: for a registered key with a configured remote id, load_dataset returns
\* a non-empty table or None, and it returns a table exactly when every request
\* it issued (the confirm retry included) succeeded and the body it parsed is
\* well-formed.
C1_FetchMatchesTransportAndParse ==
    FetchedConfigured =>
        /\ ret = None \/ IsNonEmptyTable(ret)
        /\ (ret # None) <=>
              /\ \A i \in 1..Len(net) : TransportSucceeded(net[i])
              /\ ParseSucceeded(net[Len(net)])

-----------------------------------------------------------------------------
(* C2 *)

\* C2: load_dataset never raises and returns a table or None, whatever the key,
\* the descriptor and the answers of the network.
C2_FetchReturnsNormally ==
    op.name = "load_dataset" => (~raised /\ (ret = None \/ IsTable(ret)))

\* C2: load_dataset leaves the registry and the store as they were.
C2_FetchChangesNothing ==
    op'.name = "load_dataset" =>
        UNCHANGED <<city_name, folder_id, city_configs, file_configs, datasets>>

\* C2: load_dataset never raises: for any key (registered or not), any
\* descriptor state and any failure of the first request, of the retry or of
\* the parse, it returns a table or None, and registry and store are unchanged.
C2_FetchNeverRaises ==
    /\ []C2_FetchReturnsNormally
    /\ [][C2_FetchChangesNothing]_vars

\* a fetch whose confirm request timed out, on a loader with a loaded store
C2_Witness ==
    /\ op.name = "load_dataset"
    /\ Len(net) = 2 /\ net[2].exc
    /\ ret = None /\ ~raised
    /\ \E k \in DOMAIN datasets : datasets[k] # None

-----------------------------------------------------------------------------
(* C3 *)

\* C3: the requests for key k in the last operation: none when k has no
\* descriptor or no remote id; otherwise they stand next to each other, the
\* first without and the second with the confirm flag, both for k's remote id,
\* and there is a second one exactly when the first was answered with success
\* by a body shorter than 1000 that holds the marker.
C3_RequestsOfKey(k) ==
    LET R == RequestsFor(k) IN
    IF k \notin DOMAIN file_configs \/ ~Truthy(file_configs[k].file_id)
    THEN R = {}
    ELSE \A i \in R :
            /\ reqLog[i].url.id = file_configs[k].file_id
            /\ reqLog[i].url.export = "download"
            /\ ~reqLog[i].url.confirm =>
                  /\ \A j \in R : j \in {i, i + 1}
                  /\ (i + 1 \in R) <=>
                        /\ TransportSucceeded(net[i])
                        /\ net[i].len < 1000
                        /\ net[i].has_marker
            /\ reqLog[i].url.confirm =>
                  /\ i - 1 \in R
                  /\ ~reqLog[i - 1].url.confirm

\* C3: number and order of HTTP requests per fetch: zero for an unregistered
\* key or an unset remote id (and the fetch returns None); otherwise one
\* request, followed by one confirm retry iff the first response succeeded, is
\* shorter than 1000 and holds the virus-scan marker; never more than two; in a
\* full load a key's retry directly follows that key's first request.
C3_RequestSequence ==
    Fetching =>
        /\ \A k \in AllKeys : C3_RequestsOfKey(k)
        /\ \A k \in AllKeys : Cardinality(RequestsFor(k)) <= 2
        /\ op.name = "load_dataset" =>
              /\ \A i \in 1..Len(reqLog) : reqLog[i].key = op.key
              /\ ~FetchedConfigured => (reqLog = <<>> /\ ret = None)
              /\ FetchedConfigured => Len(reqLog) \in {1, 2}
        /\ op.name = "load_all_datasets" =>
              \A k \in DOMAIN file_configs :
                  Truthy(file_configs[k].file_id) => RequestsFor(k) # {}

\* a full load in which one key is retried and a later key is requested
C3_Witness ==
    /\ op.name = "load_all_datasets"
    /\ Len(reqLog) >= 3
    /\ reqLog[1].key = reqLog[2].key /\ reqLog[2].url.confirm
    /\ reqLog[3].key # reqLog[1].key

\* a single fetch answered by a marked body of exactly 1000: no retry
C3_WitnessBoundary ==
    /\ op.name = "load_dataset"
    /\ Len(reqLog) = 1
    /\ net[1].has_marker /\ net[1].len = 1000 /\ TransportSucceeded(net[1])

-----------------------------------------------------------------------------
(* C4 *)

\* what the network answered to the requests for key k, in order
AnswersFor(k) ==
    LET R == RequestsFor(k) IN
    [n \in 1..Cardinality(R) |->
        net[CHOOSE i \in R : Cardinality({j \in R : j < i}) = n - 1]]

\* what the fetch of key k during the last full load returned
FetchResult(k) ==
    LET A == AnswersFor(k) IN
    IF A = <<>> THEN None
    ELSE load_dataset(file_configs, k, A[1], IF Len(A) > 1 THEN A[2] ELSE A[1]).ret

\* C4: load_all_datasets always completes; the store it returns is the new
\* store, its keys are exactly the keys of the active descriptors (nothing of an
\* earlier load or of the sample data survives), each key holds what that key's
\* fetch returned, a table or None, and the summary counts the entries that are
\* not None over the number of descriptors.
C4_LoadAllReplacesStore ==
    op.name = "load_all_datasets" =>
        /\ ~raised
        /\ ret = datasets
        /\ DOMAIN datasets = DOMAIN file_configs
        /\ \A k \in DOMAIN datasets :
              /\ datasets[k] = None \/ IsTable(datasets[k])
              /\ datasets[k] = FetchResult(k)
        /\ op.summary.loaded_count =
              Cardinality({k \in DOMAIN datasets : datasets[k] # None})
        /\ op.summary.total_count = Cardinality(DOMAIN file_configs)
        /\ op.summary.loaded_count <= op.summary.total_count

\* three descriptors, one without a remote id: three entries, one None, "2/3"
C4_Witness ==
    /\ op.name = "load_all_datasets"
    /\ Cardinality(DOMAIN file_configs) = 3
    /\ Cardinality({k \in DOMAIN file_configs : ~Truthy(file_configs[k].file_id)}) = 1
    /\ Cardinality(DOMAIN datasets) = 3
    /\ Cardinality({k \in DOMAIN datasets : datasets[k] = None}) = 1
    /\ op.summary = [loaded_count |-> 2, total_count |-> 3]

\* a full load of a city without descriptors empties a store of sample data
C4_WitnessSampleGone ==
    /\ op.name = "load_all_datasets"
    /\ DOMAIN file_configs = {}
    /\ datasets = EmptyDict

-----------------------------------------------------------------------------
(* C5 *)

\* C5: get_dataset_by_category holds key k under category c exactly when k is
\* stored with a table (not None) and k's descriptor has category c; no None
\* appears in the result.
C5_ByCategorySkipsAbsent ==
    op.name = "get_dataset_by_category" =>
        /\ \A c \in DOMAIN ret : \A k \in DOMAIN ret[c] : ret[c][k] # None
        /\ \A k \in AllKeys : \A c \in {"properties", "complaints", "general"} :
              (c \in DOMAIN ret /\ k \in DOMAIN ret[c]) <=>
                  /\ k \in DOMAIN datasets
                  /\ datasets[k] # None
                  /\ k \in DOMAIN file_configs
                  /\ file_configs[k].category = c

-----------------------------------------------------------------------------
(* C6 *)

\* the addresses of a table, as a set
Addresses(t) == {t.address[i] : i \in 1..Len(t.address)}

\* C6: load_city_str_data applies the sample data exactly when the full load
\* gave no table; after it the store holds a non-empty properties table and a
\* complaints table whose addresses are addresses of the properties table; so
\* whatever the fetches did, the returned store holds a non-empty table.
C6_AlwaysNonEmptyInput ==
    op.name = "load_city_str_data" =>
        /\ ~raised
        /\ ret = datasets
        /\ op.fallback <=> (\A k \in DOMAIN file_configs : FetchResult(k) = None)
        /\ op.fallback =>
              /\ IsNonEmptyTable(datasets["licensed_strs"])
              /\ IsTable(datasets["ez_complaints"])
              /\ Addresses(datasets["ez_complaints"])
                    \subseteq Addresses(datasets["licensed_strs"])
        /\ \E k \in DOMAIN datasets : IsNonEmptyTable(datasets[k])

\* C6 without its last sentence: when the fallback runs and what it yields
C6_FallbackOnly ==
    op.name = "load_city_str_data" =>
        /\ ~raised
        /\ ret = datasets
        /\ op.fallback <=> (\A k \in DOMAIN file_configs : FetchResult(k) = None)
        /\ op.fallback =>
              /\ IsNonEmptyTable(datasets["licensed_strs"])
              /\ IsTable(datasets["ez_complaints"])
              /\ Addresses(datasets["ez_complaints"])
                    \subseteq Addresses(datasets["licensed_strs"])

-----------------------------------------------------------------------------
(* C7 *)

\* C7: applying to the registry the links just applied changes nothing.
C7_SecondApplicationIsNoOp ==
    op.name = "setup_file_links" =>
        setup_file_links(file_configs, op.links) = file_configs

\* C7: setup_file_links adds and removes no key; a descriptor whose key is not
\* among the links is untouched; a descriptor whose key is among them gets the
\* id extracted from its url and nothing else changes, whatever other pairs
\* (unknown keys included) the same call holds.
C7_EachKnownPairApplied ==
    op'.name = "setup_file_links" =>
        /\ DOMAIN file_configs' = DOMAIN file_configs
        /\ \A k \in DOMAIN file_configs :
              IF k \in LinkKeys(op'.links)
              THEN file_configs'[k] =
                      [file_configs[k] EXCEPT
                          !.file_id = extract_file_id(LinkUrl(op'.links, k))]
              ELSE file_configs'[k] = file_configs[k]
        /\ \A c \in DOMAIN city_configs :
              c # shared => city_configs'[c] = city_configs[c]

\* C7: setup_file_links is idempotent per key and soft-fails on unknown keys:
\* the same links applied twice leave the remote ids of one application; a pair
\* with an unknown key changes no descriptor and adds no key, and the other
\* pairs of the call are still applied.
C7_ResolveLinksIdempotent ==
    /\ []C7_SecondApplicationIsNoOp
    /\ [][C7_EachKnownPairApplied]_vars

\* links whose first pair has an unknown key and whose second pair was applied
C7_Witness ==
    /\ op.name = "setup_file_links"
    /\ Len(op.links) = 2
    /\ op.links[1][1] \notin DOMAIN file_configs
    /\ op.links[2][1] \in DOMAIN file_configs
    /\ file_configs[op.links[2][1]].file_id = <<"A","B">>

-----------------------------------------------------------------------------
(* C9 *)

\* C9: a remote id that is set stays set: no call of setup_file_links,
\* add_city_config, load_dataset or load_all_datasets leaves a descriptor of
\* the active config, whose remote id was set, without a set remote id.
C9_SetIdStaysSet ==
    op'.name \in {"setup_file_links", "add_city_config", "load_dataset",
                  "load_all_datasets"} =>
        \A k \in DOMAIN file_configs :
            Truthy(file_configs[k].file_id) =>
                /\ k \in DOMAIN file_configs'
                /\ Truthy(file_configs'[k].file_id)

\* C9: a descriptor's remote id is never removed once set.
C9_RemoteIdNeverRemoved == [][C9_SetIdStaysSet]_vars

-----------------------------------------------------------------------------
(* C10 *)

\* C10: add_city_config installs the mappings as the named city's config,
\* overwriting the previous one, unset remote ids accepted; when the named city
\* is the loader's city, and for the loader add_new_city returns, the installed
\* descriptors are the active ones, those that links, fetches and full loads
\* work on.
C10_RegisteredCityIsActive ==
    op.name \in {"add_city_config", "add_new_city"} =>
        /\ op.city \in DOMAIN city_configs
        /\ city_configs[op.city] = op.mappings
        /\ (op.name = "add_new_city" \/ op.city = city_name) =>
              file_configs = op.mappings

\* C10 as far as the registry goes: the mappings are installed under the name
C10_InstalledUnderName ==
    op.name \in {"add_city_config", "add_new_city"} =>
        /\ op.city \in DOMAIN city_configs
        /\ city_configs[op.city] = op.mappings

-----------------------------------------------------------------------------
(* C8 *)

\* the string p stands in u at position i
OccursAt(u, i, p) ==
    /\ i >= 1
    /\ i + Len(p) - 1 <= Len(u)
    /\ \A j \in 1..Len(p) : u[i + j - 1] = p[j]

\* u[i..j] is an identifier: letters, digits, "-" and "_", at least one
IsIdAt(u, i, j) == i <= j /\ j <= Len(u) /\ \A x \in i..j : u[x] \in IdChars

\* the identifier that starts at position i of u and ends where u does or
\* where a character that is none of an identifier follows
IdFrom(u, i) ==
    SubSeq(u, i, CHOOSE j \in i..Len(u) :
                    IsIdAt(u, i, j) /\ (j = Len(u) \/ u[j + 1] \notin IdChars))

\* positions where /file/d/<ID>/ starts
PathStarts(u) ==
    {i \in 1..Len(u) :
        /\ OccursAt(u, i, <<"/","f","i","l","e","/","d","/">>)
        /\ \E j \in 1..Len(u) : IsIdAt(u, i + 8, j) /\ j < Len(u) /\ u[j + 1] = "/"}

\* positions where the query parameter ?id=<ID> starts
QueryParamStarts(u) ==
    {i \in 1..Len(u) : OccursAt(u, i, <<"?","i","d","=">>) /\ IsIdAt(u, i + 4, i + 4)}

\* positions where id=<ID> starts, whatever stands before it
IdEqualsStarts(u) ==
    {i \in 1..Len(u) : OccursAt(u, i, <<"i","d","=">>) /\ IsIdAt(u, i + 3, i + 3)}

Leftmost(S) == CHOOSE i \in S : \A j \in S : i <= j

\* u without the white space at its ends
Trimmed(u) ==
    LET ink == {i \in 1..Len(u) : u[i] \notin {" ", "\t", "\n", "\r"}} IN
    IF ink = {} THEN <<>>
    ELSE SubSeq(u, Leftmost(ink), CHOOSE i \in ink : \A j \in ink : j <= i)

\* C8 as claimed: /file/d/<ID>/ yields that <ID>, even beside an id parameter;
\* otherwise a query parameter ?id=<ID> yields its value; otherwise the trimmed
\* string is the identifier.
C8_FirstMatchWinsAsClaimed ==
    extracted # NoId =>
        IF PathStarts(url) # {}
        THEN extracted = IdFrom(url, Leftmost(PathStarts(url)) + 8)
        ELSE IF QueryParamStarts(url) # {}
        THEN extracted = IdFrom(url, Leftmost(QueryParamStarts(url)) + 4)
        ELSE extracted = Trimmed(url)

\* C8 amended: /file/d/<ID>/ yields the <ID> of its leftmost occurrence, even
\* beside an id parameter; otherwise id=<ID> anywhere in the string, after "?"
\* or not, yields the <ID> of its leftmost occurrence; otherwise the trimmed
\* string is the identifier.
C8_FirstMatchWins ==
    extracted # NoId =>
        IF PathStarts(url) # {}
        THEN extracted = IdFrom(url, Leftmost(PathStarts(url)) + 8)
        ELSE IF IdEqualsStarts(url) # {}
        THEN extracted = IdFrom(url, Leftmost(IdEqualsStarts(url)) + 3)
        ELSE extracted = Trimmed(url)

\* a string with /file/d/<ID>/ and an id parameter of another value
C8_Witness ==
    /\ extracted # NoId
    /\ PathStarts(url) # {}
    /\ QueryParamStarts(url) # {}
    /\ extracted = IdFrom(url, Leftmost(PathStarts(url)) + 8)
    /\ extracted # IdFrom(url, Leftmost(QueryParamStarts(url)) + 4)

\* a string with a query parameter ?id=<ID> and no /file/d/<ID>/
C8_WitnessQuery ==
    /\ extracted # NoId
    /\ PathStarts(url) = {}
    /\ QueryParamStarts(url) # {}
    /\ extracted = IdFrom(url, Leftmost(QueryParamStarts(url)) + 4)

\* a padded bare identifier
C8_WitnessBare ==
    /\ extracted # NoId
    /\ PathStarts(url) = {} /\ IdEqualsStarts(url) = {}
    /\ url # extracted /\ extracted # <<>>


-----------------------------------------------------------------------------
(***************************************************************************)
(* The nuisance predictor (modeling/predictor.py).                         *)
(*                                                                         *)
(* A DataFrame is a record of its ordered column names and its rows, each  *)
(* row the sequence of its values in column order.  A probability is kept  *)
(* in hundredths: 30 is 0.30, 70 is 0.70.  The scikit-learn classifier is  *)
(* a handle holding whether it is fitted, the columns it was fitted on and *)
(* the function it learned, here a weight for each fitted column.          *)
(***************************************************************************)

\* a Python list, told apart from None
PyList(items) == [py |-> "list", items |-> items]

\* pd.DataFrame()
EmptyFrame == [columns |-> <<>>, rows |-> <<>>]

\* col in df.columns
HasColumn(df, col) == \E i \in DOMAIN df.columns : df.columns[i] = col

ColumnIndex(df, col) == CHOOSE i \in DOMAIN df.columns : df.columns[i] = col

\* df[cols]: the listed columns, in the order of the list
SelectColumns(df, cols) ==
    [columns |-> cols,
     rows    |-> [r \in DOMAIN df.rows |->
                     [j \in DOMAIN cols |-> df.rows[r][ColumnIndex(df, cols[j])]]]]

\* df[col]
SelectSeries(df, col) ==
    [py |-> "Series",
     values |-> [r \in DOMAIN df.rows |-> df.rows[r][ColumnIndex(df, col)]]]

\* X.empty: some axis has length zero
IsEmptyFrame(X) == Len(X.columns) = 0 \/ Len(X.rows) = 0

\* feature_cols of prepare_features
feature_cols ==
    <<"complaint_count_last_year", "property_age", "neighborhood_risk_score">>

\* X, y = self.prepare_features(df)
prepare_features(df) ==
    [X |-> IF \A j \in DOMAIN feature_cols : HasColumn(df, feature_cols[j])
           THEN SelectColumns(df, feature_cols)
           ELSE EmptyFrame,
     y |-> IF HasColumn(df, "is_nuisance")
           THEN SelectSeries(df, "is_nuisance")
           ELSE None]

\* NuisancePredictor(model_type)
NewPredictor(model_type) ==
    [model_type      |-> model_type,
     model           |-> None,
     feature_columns |-> None,
     is_trained      |-> FALSE]

\* RandomForestClassifier(n_estimators=100, max_depth=10, random_state=42)
RandomForestClassifier ==
    [py         |-> "RandomForestClassifier",
     fitted     |-> FALSE,
     fitted_on  |-> <<>>,
     weights    |-> <<>>]

\* the bucket of one probability, with both boundaries going down a tier
risk_level_exclusive(prob) ==
    IF prob <= 30 THEN "Low"
    ELSE IF prob <= 70 THEN "Medium"
    ELSE "High"

\* the body of the loop of categorize_risk, for one probability
risk_level(prob) ==
    IF prob < 30 THEN "Low"
    ELSE IF prob < 70 THEN "Medium"
    ELSE "High"

\* self.categorize_risk(probabilities): one append for each probability
RECURSIVE categorize_risk(_)
categorize_risk(probabilities) ==
    IF probabilities = <<>>
    THEN <<>>
    ELSE Append(categorize_risk(SubSeq(probabilities, 1, Len(probabilities) - 1)),
                risk_level(probabilities[Len(probabilities)]))

-----------------------------------------------------------------------------
(* The classifier, as scikit-learn answers *)

\* the outcome of a call: what is raised ("" if nothing), with which message
Raise(exc, msg) == [exc |-> exc, msg |-> msg]

NoError == Raise("", "")

\* a call the predictor makes into scikit-learn, with the columns it hands over
SkCall(fn, columns) == [fn |-> fn, columns |-> columns]

RECURSIVE Dot(_, _, _)
Dot(w, x, n) == IF n = 0 THEN 0 ELSE Dot(w, x, n - 1) + w[n] * x[n]

Clip(v) == IF v < 0 THEN 0 ELSE IF v > 100 THEN 100 ELSE v

\* what model.predict(X) and model.predict_proba(X) raise, if anything: the
\* classifier must be fitted and X must have as many columns as it was fitted
\* on; whether differing column names are refused depends on the library
\* version and on whether the classifier was fitted on named columns (strict)
sk_refusal(model, X, strict) ==
    IF ~model.fitted THEN Raise("NotFittedError", "sklearn")
    ELSE IF Len(X.columns) # Len(model.fitted_on) THEN Raise("ValueError", "sklearn")
    ELSE IF strict /\ X.columns # model.fitted_on THEN Raise("ValueError", "sklearn")
    ELSE NoError

\* model.predict_proba(X)[:, 1]: the learned function, applied by position
sk_predict_proba(model, X) ==
    [r \in DOMAIN X.rows |-> Clip(Dot(model.weights, X.rows[r], Len(X.columns)))]

\* model.predict(X): the class of the larger probability
sk_predict(model, X) ==
    [r \in DOMAIN X.rows |-> IF sk_predict_proba(model, X)[r] > 50 THEN 1 ELSE 0]

\* model.fit(X_train, y_train) having learned the weights w
sk_fit(model, X, w) ==
    [model EXCEPT !.fitted = TRUE, !.fitted_on = X.columns, !.weights = w]

-----------------------------------------------------------------------------
(* The predictor's operations.  Each yields the object after the call      *)
(* (self), what was raised, what was returned and the scikit-learn calls   *)
(* made, in order.                                                         *)

Outcome(self, err, ret_, calls) ==
    [self |-> self, err |-> err, ret |-> ret_, calls |-> calls]

\* train from the split on (lines 67-91): env says whether the split and the
\* fit succeed and what the fit learns
train_from_split(self, df, env) ==
    LET X  == prepare_features(df).X
        split == <<SkCall("train_test_split", X.columns)>>
        m1 == IF self.model_type = "random_forest"
              THEN RandomForestClassifier ELSE self.model
    IN  IF ~env.split_ok
        THEN Outcome(self, Raise("ValueError", "sklearn"), None, split)
        ELSE IF m1 = None
        THEN Outcome([self EXCEPT !.model = m1],
                     Raise("AttributeError", "NoneType"), None, split)
        ELSE IF ~env.fit_ok
        THEN Outcome([self EXCEPT !.model = m1],
                     Raise("ValueError", "sklearn"), None,
                     split \o <<SkCall("fit", X.columns)>>)
        ELSE Outcome([self EXCEPT !.model = sk_fit(m1, X, env.weights),
                                  !.feature_columns = PyList(X.columns),
                                  !.is_trained = TRUE],
                     NoError, sk_fit(m1, X, env.weights),
                     split \o <<SkCall("fit", X.columns), SkCall("predict", X.columns)>>)

\* train without the test for an empty X or a missing target
train_unguarded(self, df, env) == train_from_split(self, df, env)

\* self.train(df)
train(self, df, env) ==
    IF IsEmptyFrame(prepare_features(df).X) \/ prepare_features(df).y = None
    THEN Outcome(self,
                 Raise("ValueError", "No valid features or target found for training"),
                 None, <<>>)
    ELSE train_from_split(self, df, env)

\* the results frame of predict: the input rows with the three new columns
prediction_rows(df, predictions, probabilities) ==
    [py   |-> "DataFrame",
     rows |-> [r \in DOMAIN df.rows |->
                  [input               |-> df.rows[r],
                   nuisance_prediction |-> predictions[r],
                   nuisance_probability |-> probabilities[r],
                   risk_level          |-> categorize_risk(probabilities)[r]]]]

\* predict once the model is known to be trained (lines 104-123)
predict_trained(self, df, strict) ==
    LET X == prepare_features(df).X IN
    IF IsEmptyFrame(X)
    THEN Outcome(self, Raise("ValueError", "No valid features found for prediction"),
                 None, <<>>)
    ELSE IF self.model = None
    THEN Outcome(self, Raise("AttributeError", "NoneType"), None, <<>>)
    ELSE IF sk_refusal(self.model, X, strict) # NoError
    THEN Outcome(self, sk_refusal(self.model, X, strict), None,
                 <<SkCall("predict", X.columns)>>)
    ELSE Outcome(self, NoError,
                 prediction_rows(df, sk_predict(self.model, X),
                                 sk_predict_proba(self.model, X)),
                 <<SkCall("predict", X.columns), SkCall("predict_proba", X.columns)>>)

\* predict without the test of is_trained
predict_unguarded(self, df, strict) == predict_trained(self, df, strict)

\* self.predict(df)
predict(self, df, strict) ==
    IF ~self.is_trained
    THEN Outcome(self, Raise("ValueError", "Model must be trained before making predictions"),
                 None, <<>>)
    ELSE predict_trained(self, df, strict)

-----------------------------------------------------------------------------
(* The artifact.  joblib.dump pickles the dictionary model_data into the   *)
(* file; joblib.load unpickles whatever the file holds.                    *)

\* no file at the path
NoFile == [py |-> "missing"]

\* model_data of save_model
model_data(self) ==
    [model           |-> self.model,
     feature_columns |-> self.feature_columns,
     model_type      |-> self.model_type]

\* joblib.dump(obj, filepath)
joblib_dump(fs, obj, filepath) == [fs EXCEPT ![filepath] = [py |-> "pickle", obj |-> obj]]

\* self.save_model(filepath); dump_ok says whether the file can be written
save_model(self, fs, filepath, dump_ok) ==
    IF ~self.is_trained
    THEN [self |-> self, fs |-> fs, ret |-> None, calls |-> <<>>,
          err |-> Raise("ValueError", "Cannot save untrained model")]
    ELSE IF ~dump_ok
    THEN [self |-> self, fs |-> fs, ret |-> None, calls |-> <<>>,
          err |-> Raise("OSError", "joblib")]
    ELSE [self |-> self, fs |-> joblib_dump(fs, model_data(self), filepath),
          ret |-> None, calls |-> <<>>, err |-> NoError]

\* load_model keeping the model_type the object was constructed with
load_model_keeping_type(self, fs, filepath) ==
    LET d == fs[filepath].obj IN
    IF fs[filepath] = NoFile
    THEN Outcome(self, Raise("FileNotFoundError", "joblib"), None, <<>>)
    ELSE IF "model" \notin DOMAIN d
    THEN Outcome(self, Raise("KeyError", "model"), None, <<>>)
    ELSE IF "feature_columns" \notin DOMAIN d
    THEN Outcome([self EXCEPT !.model = d.model],
                 Raise("KeyError", "feature_columns"), None, <<>>)
    ELSE Outcome([self EXCEPT !.model = d.model,
                              !.feature_columns = d.feature_columns,
                              !.is_trained = TRUE],
                 NoError, None, <<>>)

\* load_model forgetting the trained model when the file is missing
load_model_forgetting(self, fs, filepath) ==
    LET d == fs[filepath].obj IN
    IF fs[filepath] = NoFile
    THEN Outcome(NewPredictor(self.model_type),
                 Raise("FileNotFoundError", "joblib"), None, <<>>)
    ELSE IF "model" \notin DOMAIN d \/ "feature_columns" \notin DOMAIN d
            \/ "model_type" \notin DOMAIN d
    THEN Outcome(self, Raise("KeyError", "model_data"), None, <<>>)
    ELSE Outcome([self EXCEPT !.model = d.model,
                              !.feature_columns = d.feature_columns,
                              !.model_type = d.model_type,
                              !.is_trained = TRUE],
                 NoError, None, <<>>)

\* self.load_model(filepath): the three assignments in order, a missing key
\* of the dictionary ending the call where it is looked up
load_model(self, fs, filepath) ==
    LET d == fs[filepath].obj IN
    IF fs[filepath] = NoFile
    THEN Outcome(self, Raise("FileNotFoundError", "joblib"), None, <<>>)
    ELSE IF "model" \notin DOMAIN d
    THEN Outcome(self, Raise("KeyError", "model"), None, <<>>)
    ELSE IF "feature_columns" \notin DOMAIN d
    THEN Outcome([self EXCEPT !.model = d.model],
                 Raise("KeyError", "feature_columns"), None, <<>>)
    ELSE IF "model_type" \notin DOMAIN d
    THEN Outcome([self EXCEPT !.model = d.model,
                              !.feature_columns = d.feature_columns],
                 Raise("KeyError", "model_type"), None, <<>>)
    ELSE Outcome([self EXCEPT !.model = d.model,
                              !.feature_columns = d.feature_columns,
                              !.model_type = d.model_type,
                              !.is_trained = TRUE],
                 NoError, None, <<>>)

-----------------------------------------------------------------------------
(* Inputs of the predictor *)

\* the predictor objects of a run: the one that trains and saves, and one
\* that restores
Instances == {"predictor", "restored"}

\* model_type arguments of the constructor
ModelTypes == {"random_forest", "xgboost"}

\* a table with every feature column and the target
TrainingTable ==
    [columns |-> feature_cols \o <<"is_nuisance">>,
     rows    |-> << <<5, 40, 1, 1>>, <<0, 20, 0, 0>> >>]

\* the same columns in another order
ShuffledTable ==
    [columns |-> <<"is_nuisance", "property_age", "neighborhood_risk_score",
                   "complaint_count_last_year">>,
     rows    |-> << <<1, 70, 0, 3>>, <<0, 29, 1, 0>> >>]

\* the feature columns without the target
ScoringTable ==
    [columns |-> feature_cols,
     rows    |-> << <<0, 10, 0>>, <<0, 30, 0>>, <<0, 69, 0>>, <<0, 70, 0>>,
                    <<0, 99, 0>> >>]

\* a feature column is missing
NoAgeTable ==
    [columns |-> <<"complaint_count_last_year", "neighborhood_risk_score",
                   "is_nuisance">>,
     rows    |-> << <<5, 1, 1>>, <<0, 0, 0>> >>]

\* every column, no row
NoRowsTable == [columns |-> feature_cols \o <<"is_nuisance">>, rows |-> <<>>]

Tables == {TrainingTable, ShuffledTable, ScoringTable, NoAgeTable, NoRowsTable}

\* what a fit can learn: a weight for each column it was fitted on
Learned == {<<0, 1, 0>>, <<10, 1, 0>>}

\* how scikit-learn answers during a train
TrainEnvs ==
    {[split_ok |-> FALSE, fit_ok |-> FALSE, weights |-> <<0, 1, 0>>],
     [split_ok |-> TRUE,  fit_ok |-> FALSE, weights |-> <<0, 1, 0>>]}
    \cup [split_ok : {TRUE}, fit_ok : {TRUE}, weights : Learned]

\* where main.py saves the model and looks for it
ModelPath == "models/nuisance_predictor.joblib"

\* a file left by an earlier version of the pipeline
OlderPath == "models/older.joblib"

Paths == {ModelPath, OlderPath}

\* an artifact whose classifier was fitted on the columns in another order
ReorderedColumns ==
    <<"property_age", "complaint_count_last_year", "neighborhood_risk_score">>

ReorderedArtifact ==
    [model           |-> [py |-> "RandomForestClassifier", fitted |-> TRUE,
                          fitted_on |-> ReorderedColumns, weights |-> <<1, 0, 0>>],
     feature_columns |-> PyList(ReorderedColumns),
     model_type      |-> "random_forest"]

\* an artifact written without the model_type key
UntypedArtifact ==
    [model           |-> [py |-> "RandomForestClassifier", fitted |-> TRUE,
                          fitted_on |-> feature_cols, weights |-> <<0, 1, 0>>],
     feature_columns |-> PyList(feature_cols)]

OlderArtifacts == {ReorderedArtifact, UntypedArtifact}

-----------------------------------------------------------------------------
(* The predictor's state machine *)

\* one call on the object i: its fields after, and the record of the call
Called(name, i, arg, o) ==
    /\ predictors' = [predictors EXCEPT ![i] = o.self]
    /\ call' = [name |-> name, self |-> i, arg |-> arg, before |-> predictors[i],
                err |-> o.err, ret |-> o.ret, calls |-> o.calls]

\* predictors[i] = NuisancePredictor(model_type), for each object of the run;
\* the model file does not exist yet, an older artifact does
InitPredictor ==
    /\ city_name = "Scottsdale"
    /\ folder_id = NewLoader("Scottsdale", NoFolder).folder_id
    /\ city_configs = NewLoader("Scottsdale", NoFolder).city_configs
    /\ file_configs = NewLoader("Scottsdale", NoFolder).file_configs
    /\ shared = NewLoader("Scottsdale", NoFolder).shared
    /\ datasets = NewLoader("Scottsdale", NoFolder).datasets
    /\ op = [name |-> "__init__"]
    /\ ret = None
    /\ raised = FALSE
    /\ reqLog = <<>>
    /\ net = <<>>
    /\ url = <<>>
    /\ extracted = NoId
    /\ predictors \in [Instances -> {NewPredictor(t) : t \in ModelTypes}]
    /\ \E a \in OlderArtifacts :
          files = [f \in Paths |-> IF f = OlderPath
                                   THEN [py |-> "pickle", obj |-> a]
                                   ELSE NoFile]
    /\ call = [name |-> "__init__"]

\* predictors[i].train(df)
Train(i, df, env) ==
    /\ Called("train", i, df, train(predictors[i], df, env))
    /\ UNCHANGED <<loaderVars, url, extracted, files>>

\* predictors[i].predict(df)
Predict(i, df, strict) ==
    /\ Called("predict", i, df, predict(predictors[i], df, strict))
    /\ UNCHANGED <<loaderVars, url, extracted, files>>

\* predictors[i].save_model(filepath)
SaveModel(i, filepath, dump_ok) ==
    LET o == save_model(predictors[i], files, filepath, dump_ok) IN
    /\ Called("save_model", i, filepath, o)
    /\ files' = o.fs
    /\ UNCHANGED <<loaderVars, url, extracted>>

\* predictors[i].load_model(filepath)
LoadModel(i, filepath) ==
    /\ Called("load_model", i, filepath, load_model(predictors[i], files, filepath))
    /\ UNCHANGED <<loaderVars, url, extracted, files>>

\* predictors[i].categorize_risk(probabilities)
CategorizeRisk(i, probabilities) ==
    /\ Called("categorize_risk", i, probabilities,
              Outcome(predictors[i], NoError, categorize_risk(probabilities), <<>>))
    /\ UNCHANGED <<loaderVars, url, extracted, files>>

\* Training, prediction, saving and loading, in any order, on any object
NextPredictor ==
    \/ \E i \in Instances, df \in Tables, env \in TrainEnvs : Train(i, df, env)
    \/ \E i \in Instances, df \in Tables, strict \in BOOLEAN : Predict(i, df, strict)
    \/ \E i \in Instances, dump_ok \in BOOLEAN : SaveModel(i, ModelPath, dump_ok)
    \/ \E i \in Instances, f \in Paths : LoadModel(i, f)

SpecPredictor == InitPredictor /\ [][NextPredictor]_vars

\* Risk bucketing: a predictor that trains and predicts, and categorize_risk
\* on lists of probabilities
MaxProbs == 2

ProbValues == {0, 29, 30, 31, 69, 70, 71, 100}

ExampleProbs == <<10, 30, 69, 70, 99>>

RECURSIVE ProbLists(_)
ProbLists(n) ==
    IF n = 0 THEN {<<>>}
    ELSE ProbLists(n - 1)
         \cup {Append(ps, v) : ps \in {q \in ProbLists(n - 1) : Len(q) = n - 1},
                               v \in ProbValues}

NextRisk ==
    \/ \E env \in TrainEnvs : Train("predictor", TrainingTable, env)
    \/ \E df \in {ScoringTable, ShuffledTable} : Predict("predictor", df, FALSE)
    \/ \E ps \in ProbLists(MaxProbs) \cup {ExampleProbs} :
          CategorizeRisk("predictor", ps)

\* predictor = NuisancePredictor(), as main.py constructs it
InitRisk ==
    /\ InitPredictor
    /\ \A i \in Instances : predictors[i] = NewPredictor("random_forest")
    /\ files[OlderPath].obj = ReorderedArtifact

SpecRisk == InitRisk /\ [][NextRisk]_vars

-----------------------------------------------------------------------------
(* Claims about the predictor *)

\* the tier the threshold rule gives a probability p (in hundredths)
Bucket(p) ==
    CHOOSE t \in {"Low", "Medium", "High"} :
        /\ t = "Low" <=> p < 30
        /\ t = "Medium" <=> (30 =< p /\ p < 70)
        /\ t = "High" <=> p >= 70

TierRank(t) == CASE t = "Low" -> 1 [] t = "Medium" -> 2 [] t = "High" -> 3

\* the last call was name, and it returned normally
Returned(name) == call.name = name /\ call.err = NoError

\* the last call was name, and it raised exc with the message msg
Failed(name, exc, msg) == call.name = name /\ call.err = Raise(exc, msg)

\* the last call left the object it was made on as it was
ObjectUnchanged == predictors[call.self] = call.before

\* C11: categorize_risk gives one tier for each probability, in input order,
\* each the tier of the threshold rule (below 0.30 Low, from 0.30 and below
\* 0.70 Medium, from 0.70 High, so both boundaries go up a tier), a larger
\* probability never getting a lower tier; 0.10, 0.30, 0.69, 0.70, 0.99 give
\* Low, Medium, Medium, High, High; and every row predict returns has the
\* tier of its own nuisance_probability as its risk_level.
C11_RiskBucketing ==
    /\ categorize_risk(ExampleProbs) = <<"Low", "Medium", "Medium", "High", "High">>
    /\ Returned("categorize_risk") =>
          /\ Len(call.ret) = Len(call.arg)
          /\ \A k \in DOMAIN call.arg : call.ret[k] = Bucket(call.arg[k])
          /\ \A j, k \in DOMAIN call.arg :
                call.arg[j] =< call.arg[k] => TierRank(call.ret[j]) =< TierRank(call.ret[k])
    /\ call.name = "categorize_risk" => call.err = NoError
    /\ Returned("predict") =>
          /\ Len(call.ret.rows) = Len(call.arg.rows)
          /\ \A r \in DOMAIN call.ret.rows :
                /\ call.ret.rows[r].input = call.arg.rows[r]
                /\ call.ret.rows[r].risk_level
                      = Bucket(call.ret.rows[r].nuisance_probability)

\* categorize_risk was called on the two boundaries
C11_Witness ==
    /\ Returned("categorize_risk")
    /\ call.arg = <<30, 70>>
    /\ call.ret = <<"Medium", "High">>

\* predict returned rows on both boundaries and on both sides of them
C11_WitnessPredict ==
    /\ Returned("predict")
    /\ {<<row.nuisance_probability, row.risk_level>> :
           row \in {call.ret.rows[r] : r \in DOMAIN call.ret.rows}}
         = {<<10, "Low">>, <<30, "Medium">>, <<69, "Medium">>, <<70, "High">>,
            <<99, "High">>}

\* the names of the columns of a table
ColumnSet(df) == {df.columns[i] : i \in DOMAIN df.columns}

\* the feature columns a table must have
RequiredColumns == {feature_cols[j] : j \in DOMAIN feature_cols}

LacksFeature(df) == \E c \in RequiredColumns : c \notin ColumnSet(df)

LacksTarget(df) == "is_nuisance" \notin ColumnSet(df)

\* C12: train on a table that lacks a required feature column or the target
\* column raises the readiness ValueError, makes no call into scikit-learn
\* (no split, no fit) and leaves the object's model, feature_columns and
\* is_trained as they were; an untrained object stays untrained.
C12_TrainRefusesUnreadyTable ==
    (call.name = "train" /\ (LacksFeature(call.arg) \/ LacksTarget(call.arg))) =>
        /\ call.err = Raise("ValueError", "No valid features or target found for training")
        /\ call.calls = <<>>
        /\ predictors[call.self].model = call.before.model
        /\ predictors[call.self].feature_columns = call.before.feature_columns
        /\ predictors[call.self].is_trained = call.before.is_trained
        /\ ~call.before.is_trained => ~predictors[call.self].is_trained

\* an untrained object was trained on a table without property_age
C12_Witness ==
    /\ call.name = "train"
    /\ call.arg = NoAgeTable
    /\ call.err.exc = "ValueError"
    /\ ~predictors[call.self].is_trained

\* a trained object was trained on a table without the target
C12_WitnessTrained ==
    /\ call.name = "train"
    /\ call.arg = ScoringTable
    /\ call.err.exc = "ValueError"
    /\ call.before.is_trained
    /\ call.before.model.fitted

\* the last call was made on an object that was not trained
OnUntrained(name) == call.name = name /\ ~call.before.is_trained

\* a step in which the object i turns trained
TurnsTrained(i) == ~predictors[i].is_trained /\ predictors'[i].is_trained

\* C13 (state part): predict on an object that is not trained raises the
\* readiness ValueError, and so does predict on a trained object when the
\* table lacks a required feature column; save_model on an object that is
\* not trained raises; in each case the object is left as it was, nothing
\* is returned and the classifier is not called.
C13_FailsExplicitly ==
    /\ OnUntrained("predict") =>
          /\ call.err = Raise("ValueError", "Model must be trained before making predictions")
          /\ ObjectUnchanged /\ call.ret = None /\ call.calls = <<>>
    /\ (call.name = "predict" /\ call.before.is_trained /\ LacksFeature(call.arg)) =>
          /\ call.err = Raise("ValueError", "No valid features found for prediction")
          /\ ObjectUnchanged /\ call.ret = None /\ call.calls = <<>>
    /\ OnUntrained("save_model") =>
          /\ call.err = Raise("ValueError", "Cannot save untrained model")
          /\ ObjectUnchanged /\ call.ret = None

\* C13 (step part): an object is not trained unless a train or a load_model
\* on it has returned normally, and a save_model on an object that is not
\* trained writes no file.
C13_NoArtifactNoShortcut ==
    /\ \A i \in Instances :
          TurnsTrained(i) =>
              /\ call'.name \in {"train", "load_model"}
              /\ call'.self = i
              /\ call'.err = NoError
    /\ (call'.name = "save_model" /\ ~call'.before.is_trained) => files' = files

C13_WitnessSave ==
    /\ OnUntrained("save_model")
    /\ call.err.exc = "ValueError"
    /\ files[ModelPath] = NoFile

\* predict was refused on a trained object for a missing column
C13_WitnessMissingColumn ==
    /\ call.name = "predict"
    /\ call.before.is_trained
    /\ call.before.model.fitted
    /\ call.arg = NoAgeTable
    /\ call.err.exc = "ValueError"

\* the feature matrices the last call handed to the classifier for prediction
HandedToClassifier ==
    {call.calls[k].columns :
        k \in {n \in DOMAIN call.calls : call.calls[n].fn \in {"predict", "predict_proba"}}}

\* C14: whenever predict hands a feature matrix to the classifier, the
\* columns of the matrix are the feature_columns the model recorded, same
\* names in the same order, whatever train and load_model calls the model
\* came from; on a mismatch nothing is handed over.
C14_MatrixHasRecordedColumns ==
    call.name = "predict" =>
        \A columns \in HandedToClassifier :
            PyList(columns) = call.before.feature_columns

\* the part of C14 the code keeps: a model that came from train only is
\* handed the columns it recorded
C14_TrainedHereAgrees ==
    (call.name = "predict" /\ call.before.feature_columns = PyList(feature_cols)) =>
        \A columns \in HandedToClassifier : columns = feature_cols

\* the dictionary a save of the object would pickle
SavedFields(self) ==
    [model |-> self.model, feature_columns |-> self.feature_columns,
     model_type |-> self.model_type]

\* what predict gives the caller: the error raised and the frame returned
Answer(self, df, strict) ==
    <<predict(self, df, strict).err, predict(self, df, strict).ret>>

\* C15 (save): a save_model leaves every object as it was, and one that
\* returns normally leaves at its path the pickled model, feature_columns
\* and model_type of the saving object.
C15_SaveStep ==
    call'.name = "save_model" =>
        /\ predictors' = predictors
        /\ call'.err = NoError =>
              /\ predictors[call'.self].is_trained
              /\ files'[call'.arg] = [py |-> "pickle",
                                      obj |-> SavedFields(predictors[call'.self])]
        /\ \A f \in Paths : f # call'.arg => files'[f] = files[f]

\* C15 (load): a load_model that returns normally leaves the loading object
\* trained, with the model, feature_columns and model_type of the artifact,
\* whatever model_type it was constructed with; and for every trained object
\* whose fields are the artifact's (the one that saved it), predict on the
\* loading object gives, for the same table, the same rows (labels,
\* probabilities, risk levels) or the same error.
C15_LoadStep ==
    (call'.name = "load_model" /\ call'.err = NoError) =>
        LET j == call'.self
            art == files[call'.arg].obj
        IN  /\ SavedFields(predictors'[j]) = art
            /\ predictors'[j].is_trained
            /\ \A i \in Instances :
                  (predictors[i].is_trained /\ SavedFields(predictors[i]) = art) =>
                      \A df \in Tables, strict \in BOOLEAN :
                          Answer(predictors'[j], df, strict)
                              = Answer(predictors[i], df, strict)

\* C15: save then load into a fresh object restores the classifier,
\* feature_columns and model_type that were saved and sets the trained flag,
\* so predict on the restored object returns what the original returns for
\* the same table; save does not change the saving object.
C15_SaveLoadRoundTrip == [][C15_SaveStep /\ C15_LoadStep]_vars

\* an object constructed for another model_type, never trained, has loaded
\* the artifact the other object saved after training
C15_Witness ==
    /\ Returned("load_model")
    /\ call.arg = ModelPath
    /\ call.before = NewPredictor("xgboost")
    /\ predictors[call.self].model_type = "random_forest"
    /\ \E i \in Instances \ {call.self} :
          /\ predictors[i].is_trained
          /\ predictors[i].feature_columns = PyList(feature_cols)
          /\ files[ModelPath].obj = SavedFields(predictors[i])
          /\ predict(predictors[i], ScoringTable, TRUE).err = NoError
          /\ Answer(predictors[call.self], ScoringTable, TRUE)
                = Answer(predictors[i], ScoringTable, TRUE)

\* C16 (construction): no object is trained when it is constructed.
C16_UntrainedAtConstruction ==
    call.name = "__init__" => \A i \in Instances : ~predictors[i].is_trained

\* C16 (steps): is_trained of an object turns true only in a train or a
\* load_model on that object, and no call of any kind, failing or not,
\* turns it false.
C16_FlagStep ==
    \A i \in Instances :
        /\ predictors[i].is_trained => predictors'[i].is_trained
        /\ (predictors'[i].is_trained /\ ~predictors[i].is_trained) =>
              (call'.self = i /\ call'.name \in {"train", "load_model"})

\* C16: the trained flag is monotone: false at construction, set only by a
\* train or a load, and true ever after, across train, predict, save and
\* load calls, failing ones included.
C16_TrainedFlagMonotone == []C16_UntrainedAtConstruction /\ [][C16_FlagStep]_vars

\* a trained object went through a train whose fit raised: it is still
\* trained, though the classifier it now holds is a new, unfitted one
C16_Witness ==
    /\ call.name = "train"
    /\ call.err = Raise("ValueError", "sklearn")
    /\ call.before.is_trained
    /\ call.before.model.fitted
    /\ predictors[call.self].is_trained
    /\ ~predictors[call.self].model.fitted

\* a trained object went through a load_model of a missing file
C16_WitnessFailedLoad ==
    /\ call.name = "load_model"
    /\ call.err.exc \in {"FileNotFoundError", "KeyError"}
    /\ call.before.is_trained
    /\ predictors[call.self].is_trained

=============================================================================
